---- MODULE Spec2Model ----
(***************************************************************************)
(* Model of script.js: scroll-triggered animations of a static page.       *)
(*                                                                         *)
(* The page is one container element (the "parent list") whose child       *)
(* elements are the candidate elements 1..NumElems; an element that is not *)
(* a child of the container has parentElement = null.  Every handler of    *)
(* the script is one action; the platform (IntersectionObserver delivery,  *)
(* timers, pointer and click events, DOM edits by the page) is the         *)
(* environment that chooses the inputs.                                    *)
(***************************************************************************)
EXTENDS Integers, Sequences, FiniteSets, TLC

\* ----------------------------------------------------------------- bounds
NumElems == 2
MaxBatch == 2
MaxCalls == 3
WaitTicks == 2

Elems == 1..NumElems
\* null, and the container element that holds the candidates
Null == 0
Container == NumElems + 1

VARIABLES
    ready,            \* the DOMContentLoaded handler has run
    children,         \* parentList.children, in order
    classList,        \* classList of every element
    transitionDelay,  \* inline style.transitionDelay of every element
    observed,         \* the observer's observation targets
    heroTimer,        \* element captured by the pending 300 ms timer, or Null
    uncaught,         \* handlers whose run ended in an uncaught TypeError
    triggered,        \* elements handleIntersection has added 'animate' to
    trigIndex,        \* sibling index an element had when its delay was staggered
    regIndex,         \* sibling index an element had when it was observed
    bodyLoaded,       \* document.body carries the class 'loaded'
    loaderPresent,    \* the page has a .loader element
    loaderOpacity,    \* loader.style.opacity
    loaderDisplay,    \* loader.style.display
    loaderTimer,      \* the 300 ms timer of the load handler is pending
    hoverBound,       \* service blocks that carry the mouseenter/mouseleave listeners
    transform,        \* inline style.transform of every element
    boxShadow,        \* inline style.boxShadow of every element
    pointerOver,      \* the element under the pointer, or Null
    hoverPhase,       \* the last pointer event an element's listeners handled
    restBefore,       \* inline <<transform, boxShadow>> before the last mouseenter
    lastClick,        \* the most recent anchor click and what its handler did
    timers,           \* pending setTimeout(later, wait) timers of the resize handler
    timeout,          \* the variable `timeout` in the closure of throttle
    nextCall,         \* number the next resize event will carry
    sinceCall,        \* ticks since the last resize event, counted up to WaitTicks
    callsSinceRun,    \* resize events since func last ran (0, 1, or 2 for more)
    funcRuns,         \* how often func has run
    ranArgs,          \* arguments of the most recent run of func, or Null
    reportedOut       \* targets the last delivered batch reported only as not
                      \* intersecting

animVars == <<ready, children, classList, transitionDelay, observed, heroTimer,
              triggered, trigIndex, regIndex>>
loadVars == <<bodyLoaded, loaderPresent, loaderOpacity, loaderDisplay, loaderTimer>>
hoverVars == <<hoverBound, transform, boxShadow, pointerOver, hoverPhase, restBefore>>

throttleVars == <<timers, timeout, nextCall, sinceCall, callsSinceRun, funcRuns, ranArgs>>

vars == <<animVars, uncaught, loadVars, hoverVars, lastClick, throttleVars,
          reportedOut>>

\* ------------------------------------------------------------ DOM helpers
Range(s) == {s[i] : i \in 1..Len(s)}

\* element.parentElement: the container, or null for an element outside it
parentElement(kids, el) == IF el \in Range(kids) THEN Container ELSE Null

\* the ordinal position of an element among its parent's child elements
siblingIndex(kids, el) ==
    Cardinality({i \in 1..Len(kids) : \E j \in 1..Len(kids) : kids[j] = el /\ i < j})

\* faulty variant: the position among the siblings not yet animated
IndexOfAmongUntriggered(items, el) ==
    Cardinality({i \in 1..Len(items) :
                   /\ items[i] # el
                   /\ "animate" \notin classList[items[i]]
                   /\ \E j \in 1..Len(items) : items[j] = el /\ i < j})

\* faulty variant: the position the element has in the page's markup
IndexOfMarkupOrder(items, el) == el - 1

\* Array.prototype.indexOf on Array.from(parentList.children): zero-based
indexOf(items, el) ==
    IF el \in Range(items)
    THEN (CHOOSE i \in 1..Len(items) : items[i] = el) - 1
    ELSE -1

\* `${index * 0.2}s` for index 0, 1, 2, ...: the IEEE-754 double product
\* index * 0.2 rendered by the JavaScript number-to-string conversion
\* (shortest round-trip decimal), followed by the unit.
TemplateTimes02 ==
    <<"0s", "0.2s", "0.4s", "0.6000000000000001s", "0.8s", "1s",
      "1.2000000000000002s", "1.4000000000000001s", "1.6s">>

staggerDelay(index) == TemplateTimes02[index + 1]

\* document.querySelectorAll('.cls'): attached elements carrying the class,
\* in document order
querySelectorAll(kids, cl, cls) ==
    SelectSeq(kids, LAMBDA el : cl[el] \cap cls # {})

\* document.querySelector('.cls'): the first match or null
querySelector(kids, cl, cls) ==
    IF querySelectorAll(kids, cl, cls) = <<>> THEN Null
    ELSE Head(querySelectorAll(kids, cl, cls))

\* faulty variant: classList.toggle(name)
classListToggle(cl, name) == IF name \in cl THEN cl \ {name} ELSE cl \cup {name}

\* classList.add(name)
classListAdd(cl, name) == cl \cup {name}

\* ------------------------------------------------------------ page layouts
\* The class markers the page gives its elements (section 6 of the design),
\* one page per combination of roles; every element has one role, but for the
\* service block that is also a list item.
ListLayout ==
    [el \in Elems |-> IF el % 2 = 1 THEN {"problem-item"} ELSE {"solution-item"}]

MixedLayout ==
    [el \in Elems |-> IF el % 2 = 1 THEN {"hero-content"} ELSE {"service-block"}]

BlockLayout ==
    [el \in Elems |-> IF el % 2 = 1 THEN {"contact-content"} ELSE {"service-block"}]

ServiceLayout == [el \in Elems |-> {"service-block"}]

ServiceListLayout ==
    [el \in Elems |->
        IF el % 2 = 1 THEN {"service-block"} ELSE {"service-block", "solution-item"}]

HeroLayout == [el \in Elems |-> {"hero-content"}]

SectionLayout ==
    [el \in Elems |->
        IF el % 2 = 1 THEN {"mission-content"} ELSE {"pulse-animation"}]

Layouts ==
    {ListLayout, MixedLayout, BlockLayout, ServiceLayout, ServiceListLayout,
     HeroLayout, SectionLayout}

\* the id attribute of every element (the first two elements share the id a),
\* and the href attributes of the links
IdAttr(el) == IF el <= 2 THEN <<"a">> ELSE <<"b">>

Hrefs == {<<"#">>, <<"#", "a">>, <<"#", "b">>, <<"#", "c">>}

\* ------------------------------------------------ the observer's callback
\* addStaggeredAnimation(element): reads parentList.children of a null
\* parentElement and so throws for an element outside the container.
addStaggeredAnimation(el, st) ==
    IF parentElement(st.children, el) = Null
    THEN [st EXCEPT !.thrown = TRUE]
    ELSE [st EXCEPT
            !.transitionDelay[el] = staggerDelay(indexOf(st.children, el)),
            !.trigIndex[el] = siblingIndex(st.children, el)]

\* observer.unobserve(element)
unobserve(el, st) == [st EXCEPT !.observed = @ \ {el}]

\* faulty variant: the body does not test entry.isIntersecting
forEachBodyUnconditional(entry, st) ==
    LET el == entry.target
        s1 == [st EXCEPT !.classList[el] = classListAdd(@, "animate"),
                         !.triggered = @ \cup {el}]
        s2 == IF s1.classList[el] \cap {"problem-item", "solution-item"} # {}
              THEN addStaggeredAnimation(el, s1)
              ELSE s1
    IN IF s2.thrown THEN s2 ELSE unobserve(el, s2)

\* the body of entries.forEach(entry => ...) for one entry
forEachBody(entry, st) ==
    IF ~entry.isIntersecting THEN st
    ELSE LET el == entry.target
             s1 == [st EXCEPT !.classList[el] = classListAdd(@, "animate"),
                              !.triggered = @ \cup {el}]
             s2 == IF s1.classList[el] \cap {"problem-item", "solution-item"} # {}
                   THEN addStaggeredAnimation(el, s1)
                   ELSE s1
         IN IF s2.thrown THEN s2 ELSE unobserve(el, s2)

\* entries.forEach: in order, abandoned by the first exception
RECURSIVE handleIntersection(_, _)
handleIntersection(entries, st) ==
    IF entries = <<>> \/ st.thrown THEN st
    ELSE handleIntersection(Tail(entries), forEachBody(Head(entries), st))

Entries == [target : Elems, isIntersecting : BOOLEAN]

Batches == UNION {[1..n -> Entries] : n \in 1..MaxBatch}

CallbackState ==
    [children |-> children, classList |-> classList,
     transitionDelay |-> transitionDelay, observed |-> observed,
     triggered |-> triggered, trigIndex |-> trigIndex, thrown |-> FALSE]

\* ------------------------------------------------------- the click handler
\* String.prototype.substring(1)
substring1(str) == SubSeq(str, 2, Len(str))

\* document.getElementById(id): the first attached element with that id
getElementById(kids, id) ==
    IF id = <<>> \/ SelectSeq(kids, LAMBDA el : IdAttr(el) = id) = <<>>
    THEN Null
    ELSE Head(SelectSeq(kids, LAMBDA el : IdAttr(el) = id))

\* faulty variant: scrollIntoView called without the if (targetElement) guard
clickListenerUnguarded(href, kids) ==
    LET targetElement == getElementById(kids, substring1(href))
    IN [href |-> href, defaultPrevented |-> TRUE,
        scrolledTo |-> targetElement, thrown |-> targetElement = Null]

\* the listener of initSmoothScrolling, run for a click on a link with `href`
clickListener(href, kids) ==
    LET targetId == substring1(href)
        targetElement == getElementById(kids, targetId)
    IN [href |-> href, defaultPrevented |-> TRUE,
        scrolledTo |-> IF targetElement # Null THEN targetElement ELSE Null,
        thrown |-> FALSE]

NoClick == [href |-> <<>>, defaultPrevented |-> FALSE, scrolledTo |-> Null,
            thrown |-> FALSE]

\* ------------------------------------------------------- the hover handlers
\* the inline styles the mouseenter listener writes
Hovered == <<"translateY(-5px)", "0 10px 30px rgba(0, 0, 0, 0.1)">>

\* faulty variant: the mouseleave listener clears the inline styles
mouseleaveStylesCleared == <<"", "">>

\* the inline styles the mouseleave listener writes
mouseleaveStyles == <<"translateY(0)", "none">>

\* inline styles the page's markup may give a service block
InitialInline == {<<"", "">>, <<"translateY(0)", "none">>}

\* ---------------------------------------------------------------- actions
Init ==
    /\ ready = FALSE
    /\ children = [i \in 1..NumElems |-> i]
    /\ classList \in Layouts
    /\ transitionDelay = [el \in Elems |-> ""]
    /\ observed = {}
    /\ heroTimer = Null
    /\ uncaught = {}
    /\ triggered = {}
    /\ trigIndex = [el \in Elems |-> -1]
    /\ regIndex = [el \in Elems |-> -1]
    /\ bodyLoaded = FALSE
    /\ loaderPresent \in BOOLEAN
    /\ loaderOpacity = ""
    /\ loaderDisplay = ""
    /\ loaderTimer = FALSE
    /\ hoverBound = {}
    /\ \E inline \in InitialInline :
          /\ transform = [el \in Elems |-> inline[1]]
          /\ boxShadow = [el \in Elems |-> inline[2]]
          /\ restBefore = [el \in Elems |-> inline]
    /\ pointerOver = Null
    /\ hoverPhase = [el \in Elems |-> "idle"]
    /\ lastClick = NoClick
    /\ timers = {}
    /\ timeout = Null
    /\ nextCall = 1
    /\ sinceCall = WaitTicks
    /\ callsSinceRun = 0
    /\ funcRuns = 0
    /\ ranArgs = Null
    /\ reportedOut = {}

\* faulty variant: the delay follows the block's index among its siblings
initServiceBlocksBySibling(kids, cl, td) ==
    LET blocks == querySelectorAll(kids, cl, {"service-block"})
    IN [el \in Elems |->
          IF el \in Range(blocks) THEN staggerDelay(indexOf(kids, el)) ELSE td[el]]

\* initServiceBlocksAnimation: delay by index in the NodeList, then observe
initServiceBlocksAnimation(kids, cl, td) ==
    LET blocks == querySelectorAll(kids, cl, {"service-block"})
    IN [el \in Elems |->
          IF el \in Range(blocks) THEN staggerDelay(indexOf(blocks, el)) ELSE td[el]]

\* the elements the three init...Animation functions hand to observer.observe
ObservedAtReady(kids, cl) ==
    Range(querySelectorAll(kids, cl, {"service-block"}))
      \cup Range(querySelectorAll(kids, cl, {"problem-item"}))
      \cup Range(querySelectorAll(kids, cl, {"solution-item"}))
      \cup Range(querySelectorAll(kids, cl,
                   {"mission-content", "contact-content", "pulse-animation"}))

\* faulty variant: initHeroAnimation schedules nothing
initHeroAnimationNoTimer(kids, cl) == Null

\* initHeroAnimation: the element its setTimeout callback captures, or null
\* when the page has no .hero-content
initHeroAnimation(kids, cl) == querySelector(kids, cl, {"hero-content"})

\* the DOMContentLoaded handler
DOMContentLoaded ==
    /\ ~ready
    /\ ready' = TRUE
    /\ heroTimer' = initHeroAnimation(children, classList)
    /\ transitionDelay' = initServiceBlocksAnimation(children, classList, transitionDelay)
    /\ observed' = ObservedAtReady(children, classList)
    /\ hoverBound' = Range(querySelectorAll(children, classList, {"service-block"}))
    /\ regIndex' = [el \in Elems |->
                      IF el \in ObservedAtReady(children, classList)
                      THEN siblingIndex(children, el) ELSE regIndex[el]]
    /\ UNCHANGED <<children, classList, uncaught, triggered, trigIndex, loadVars,
                   transform, boxShadow, pointerOver, hoverPhase, restBefore,
                   lastClick,
                   throttleVars, reportedOut>>

\* the 300 ms timer of initHeroAnimation fires
HeroTimerFires ==
    /\ heroTimer # Null
    /\ classList' = [classList EXCEPT ![heroTimer] = classListAdd(@, "animate")]
    /\ heroTimer' = Null
    /\ UNCHANGED <<ready, children, transitionDelay, observed, uncaught,
                   triggered, trigIndex, regIndex, loadVars, hoverVars, lastClick,
                   throttleVars, reportedOut>>

\* the platform delivers a batch of entries for observed targets
IntersectionCallback(entries) ==
    /\ \A i \in 1..Len(entries) : entries[i].target \in observed
    /\ LET st == handleIntersection(entries, CallbackState)
       IN /\ classList' = st.classList
          /\ transitionDelay' = st.transitionDelay
          /\ observed' = st.observed
          /\ triggered' = st.triggered
          /\ trigIndex' = st.trigIndex
          /\ uncaught' = IF st.thrown THEN uncaught \cup {"handleIntersection"}
                         ELSE uncaught
    /\ UNCHANGED <<ready, children, heroTimer, regIndex, loadVars, hoverVars,
                   lastClick,
                   throttleVars>>

Notify ==
    \E entries \in Batches : IntersectionCallback(entries) /\ UNCHANGED reportedOut

\* the targets a batch reports, and those it reports only as not intersecting
Targets(entries) == {entries[i].target : i \in 1..Len(entries)}

OnlyOut(entries) ==
    {el \in Targets(entries) :
        \A i \in 1..Len(entries) :
            entries[i].target = el => ~entries[i].isIntersecting}

\* a delivery of which the targets reported as not intersecting are recorded
NotifyRecorded ==
    \E entries \in Batches :
        IntersectionCallback(entries) /\ reportedOut' = OnlyOut(entries)

\* the page removes a child of the container
RemoveChild ==
    \E el \in Range(children) :
        /\ children' = SelectSeq(children, LAMBDA x : x # el)
        /\ pointerOver' = IF pointerOver = el THEN Null ELSE pointerOver
        /\ UNCHANGED <<ready, classList, transitionDelay, observed, heroTimer,
                       uncaught, triggered, trigIndex, regIndex, loadVars,
                       hoverBound, transform, boxShadow, hoverPhase, restBefore,
                       lastClick,
                   throttleVars, reportedOut>>

\* the page inserts a detached element at a position of the container
InsertChild ==
    \E el \in Elems \ Range(children), pos \in 0..Len(children) :
        /\ children' = SubSeq(children, 1, pos) \o <<el>>
                         \o SubSeq(children, pos + 1, Len(children))
        /\ UNCHANGED <<ready, classList, transitionDelay, observed, heroTimer,
                       uncaught, triggered, trigIndex, regIndex, loadVars,
                       hoverVars, lastClick,
                   throttleVars, reportedOut>>

\* faulty variant: the load handler hides the loader without the timer
LoadHidesAtOnce ==
    /\ ready
    /\ ~bodyLoaded
    /\ bodyLoaded' = TRUE
    /\ IF loaderPresent
       THEN /\ loaderOpacity' = "0"
            /\ loaderDisplay' = "none"
       ELSE UNCHANGED <<loaderOpacity, loaderDisplay>>
    /\ UNCHANGED <<animVars, uncaught, loaderPresent, loaderTimer, hoverVars,
                   lastClick,
                   throttleVars, reportedOut>>

\* the window load handler; load follows DOMContentLoaded
Load ==
    /\ ready
    /\ ~bodyLoaded
    /\ bodyLoaded' = TRUE
    /\ IF loaderPresent
       THEN /\ loaderOpacity' = "0"
            /\ loaderTimer' = TRUE
       ELSE UNCHANGED <<loaderOpacity, loaderTimer>>
    /\ UNCHANGED <<animVars, uncaught, loaderPresent, loaderDisplay, hoverVars,
                   lastClick,
                   throttleVars, reportedOut>>

\* the 300 ms timer of the load handler fires
LoaderTimerFires ==
    /\ loaderTimer
    /\ loaderTimer' = FALSE
    /\ loaderDisplay' = "none"
    /\ UNCHANGED <<animVars, uncaught, bodyLoaded, loaderPresent, loaderOpacity,
                   hoverVars, lastClick,
                   throttleVars, reportedOut>>

\* a click on a link whose href starts with '#', after the listeners are bound
Click(href) ==
    /\ ready
    /\ lastClick' = clickListener(href, children)
    /\ uncaught' = IF lastClick'.thrown THEN uncaught \cup {"click"} ELSE uncaught
    /\ UNCHANGED <<animVars, loadVars, hoverVars, throttleVars, reportedOut>>

AnchorClick == \E href \in Hrefs : Click(href)

\* the pointer enters a service block that carries the listeners
MouseEnter ==
    \E el \in hoverBound \cap Range(children) :
        /\ pointerOver = Null
        /\ pointerOver' = el
        /\ hoverPhase' = [hoverPhase EXCEPT ![el] = "over"]
        /\ restBefore' = [restBefore EXCEPT ![el] = <<transform[el], boxShadow[el]>>]
        /\ transform' = [transform EXCEPT ![el] = Hovered[1]]
        /\ boxShadow' = [boxShadow EXCEPT ![el] = Hovered[2]]
        /\ UNCHANGED <<animVars, uncaught, loadVars, hoverBound, lastClick,
                   throttleVars, reportedOut>>

\* faulty variant: the mouseleave listener also resets the transition delay
MouseLeaveResetsDelay ==
    /\ pointerOver # Null
    /\ pointerOver' = Null
    /\ hoverPhase' = [hoverPhase EXCEPT ![pointerOver] = "left"]
    /\ transform' = [transform EXCEPT ![pointerOver] = mouseleaveStyles[1]]
    /\ boxShadow' = [boxShadow EXCEPT ![pointerOver] = mouseleaveStyles[2]]
    /\ transitionDelay' = [transitionDelay EXCEPT ![pointerOver] = ""]
    /\ UNCHANGED <<ready, children, classList, observed, heroTimer, triggered,
                   trigIndex, regIndex, uncaught, loadVars, hoverBound, restBefore,
                   lastClick, throttleVars, reportedOut>>

\* the pointer leaves the service block it is over
MouseLeave ==
    /\ pointerOver # Null
    /\ pointerOver' = Null
    /\ hoverPhase' = [hoverPhase EXCEPT ![pointerOver] = "left"]
    /\ transform' = [transform EXCEPT ![pointerOver] = mouseleaveStyles[1]]
    /\ boxShadow' = [boxShadow EXCEPT ![pointerOver] = mouseleaveStyles[2]]
    /\ UNCHANGED <<animVars, uncaught, loadVars, hoverBound, restBefore, lastClick,
                   throttleVars, reportedOut>>

\* ------------------------------------------------- the throttled resize
\* clearTimeout(id): the timer with that id, if still pending, is dropped
clearTimeout(pending, id) == {t \in pending : t.id # id}

\* faulty variant: executedFunction does not cancel the pending timer
clearNothing(pending, id) == pending

\* the clearTimeout(timeout) of executedFunction, before it sets the new timer
cancelPending(pending, id) == clearTimeout(pending, id)

\* a resize event: executedFunction(...args) with args = the event's number
Resize ==
    /\ nextCall <= MaxCalls
    /\ timers' = cancelPending(timers, timeout)
                    \cup {[id |-> nextCall, left |-> WaitTicks, args |-> nextCall]}
    /\ timeout' = nextCall
    /\ nextCall' = nextCall + 1
    /\ sinceCall' = 0
    /\ callsSinceRun' = IF callsSinceRun = 0 THEN 1 ELSE 2
    /\ UNCHANGED <<animVars, uncaught, loadVars, hoverVars, lastClick, funcRuns,
                   ranArgs, reportedOut>>

\* time advances by one tick; a timer that is due fires first
Tick ==
    /\ timers # {} \/ sinceCall < WaitTicks
    /\ \A t \in timers : t.left > 0
    /\ timers' = {[t EXCEPT !.left = @ - 1] : t \in timers}
    /\ sinceCall' = IF sinceCall < WaitTicks THEN sinceCall + 1 ELSE sinceCall
    /\ UNCHANGED <<animVars, uncaught, loadVars, hoverVars, lastClick, timeout,
                   nextCall, callsSinceRun, funcRuns, ranArgs, reportedOut>>

\* a due timer runs later(): clearTimeout(timeout); func(...args)
ThrottleTimerFires ==
    \E t \in timers :
        /\ t.left = 0
        /\ timers' = clearTimeout(timers \ {t}, timeout)
        /\ funcRuns' = funcRuns + 1
        /\ ranArgs' = t.args
        /\ callsSinceRun' = 0
        /\ UNCHANGED <<animVars, uncaught, loadVars, hoverVars, lastClick, timeout,
                       nextCall, sinceCall, reportedOut>>

\* ---------------------------------------------------------- specifications
\* the animator: page-ready, the hero timer, notifications and DOM edits
Next ==
    \/ DOMContentLoaded
    \/ HeroTimerFires
    \/ Notify
    \/ RemoveChild
    \/ InsertChild

\* the animator reads neither the loader nor the inline hover styles: its
\* behaviours are explored from the pages without a loader and inline styles
AnimatorInit ==
    /\ Init
    /\ ~loaderPresent
    /\ \A el \in Elems : transform[el] = "" /\ boxShadow[el] = ""

Spec == AnimatorInit /\ [][Next]_vars

\* the animator with the timer queue's guarantee that a pending timer fires
FairSpec == Spec /\ WF_vars(HeroTimerFires)

\* anchor navigation: page-ready binds the listeners, links are clicked, the
\* page edits the container
AnchorNext ==
    \/ DOMContentLoaded
    \/ RemoveChild
    \/ InsertChild
    \/ AnchorClick

AnchorSpec == Init /\ [][AnchorNext]_vars

\* hover: page-ready binds the listeners, the pointer enters and leaves
HoverNext ==
    \/ DOMContentLoaded
    \/ RemoveChild
    \/ InsertChild
    \/ MouseEnter
    \/ MouseLeave

HoverSpec == Init /\ [][HoverNext]_vars

\* load: page-ready, then load; a pending single-shot timer fires
LoadNext ==
    \/ DOMContentLoaded
    \/ HeroTimerFires
    \/ RemoveChild
    \/ InsertChild
    \/ Load
    \/ LoaderTimerFires

LoadSpec ==
    Init /\ [][LoadNext]_vars /\ WF_vars(LoaderTimerFires) /\ WF_vars(HeroTimerFires)

\* the animator with the pointer moving over the service blocks, on pages
\* that lose elements
PointerNext ==
    \/ DOMContentLoaded
    \/ HeroTimerFires
    \/ Notify
    \/ RemoveChild
    \/ MouseEnter
    \/ MouseLeave

PointerSpec == AnimatorInit /\ [][PointerNext]_vars

\* the animator with, for every delivery, a record of the targets it reported
\* as not intersecting
ViewportNext ==
    \/ DOMContentLoaded
    \/ HeroTimerFires
    \/ NotifyRecorded
    \/ RemoveChild

ViewportSpec == AnimatorInit /\ [][ViewportNext]_vars

\* every handler of the page beside every other, on the page that has a hero
\* block, service blocks and a loader, with one resize event
InterleavedInit ==
    /\ Init
    /\ classList = MixedLayout
    /\ loaderPresent
    /\ \A el \in Elems : transform[el] = "" /\ boxShadow[el] = ""

\* the first resize event of the page
FirstResize == nextCall = 1 /\ Resize

InterleavedNext ==
    \/ DOMContentLoaded
    \/ HeroTimerFires
    \/ Notify
    \/ MouseEnter
    \/ MouseLeave
    \/ AnchorClick
    \/ Load
    \/ LoaderTimerFires
    \/ FirstResize
    \/ Tick
    \/ ThrottleTimerFires

InterleavedSpec == InterleavedInit /\ [][InterleavedNext]_vars

\* the resize handler: events arrive, time passes, due timers fire; the other
\* top-level listeners run beside it
ThrottleNext ==
    \/ Resize
    \/ Tick
    \/ ThrottleTimerFires
    \/ DOMContentLoaded
    \/ Load
    \/ LoaderTimerFires

ThrottleSpec ==
    Init /\ [][ThrottleNext]_vars /\ WF_vars(Tick) /\ WF_vars(ThrottleTimerFires)

\* ------------------------------------------------------------------ claims
IsListItem(el) == classList[el] \cap {"problem-item", "solution-item"} # {}

\* 0.2 * i seconds as a number of the page's script: the double nearest to
\* the product, in its shortest decimal form, with the unit
SecondsTimes02(i) ==
    CASE i = 0 -> "0s"
      [] i = 1 -> "0.2s"
      [] i = 2 -> "0.4s"
      [] i = 3 -> "0.6000000000000001s"
      [] i = 4 -> "0.8s"
      [] i = 5 -> "1s"
      [] OTHER -> "out of range"

\* C1: after handleIntersection has processed a batch, every element the batch
\* reported with isIntersecting = true carries 'animate' and is no longer in
\* the observation set.
C1_BatchAnimatesAndUnobserves ==
    [][\A entries \in Batches :
          IntersectionCallback(entries) =>
             \A i \in 1..Len(entries) :
                entries[i].isIntersecting =>
                   /\ "animate" \in classList'[entries[i].target]
                   /\ entries[i].target \notin observed']_vars

\* C2: the 'animate' class of an element is never removed once set, so it
\* changes from absent to present at most once, whatever notifications, timer
\* firings, pointer events and removals of elements follow.
C2_AnimateNeverRemoved ==
    [][\A el \in Elems :
          "animate" \in classList[el] => "animate" \in classList'[el]]_vars

\* C2 witness: the hero block was animated by its timer and a service block
\* by the observer callback; the pointer has since entered and left the
\* service block, and both still carry the class.
C2_Witness ==
    \E h \in Elems, el \in triggered :
        /\ "hero-content" \in classList[h]
        /\ ready /\ heroTimer = Null
        /\ "animate" \in classList[h]
        /\ "service-block" \in classList[el]
        /\ "animate" \in classList[el]
        /\ hoverPhase[el] = "left"
        /\ transform[el] = "translateY(0)"

\* C3: once the observer callback has animated an element, a further
\* notification changes neither its class list nor its inline style.
C3_NoMutationAfterTrigger ==
    [][\A entries \in Batches :
          IntersectionCallback(entries) =>
             \A el \in triggered :
                /\ classList'[el] = classList[el]
                /\ transitionDelay'[el] = transitionDelay[el]
                /\ transform'[el] = transform[el]
                /\ boxShadow'[el] = boxShadow[el]]_vars

\* C4: an element is removed from the observation set in the callback step
\* that animates it: no state has an observer-animated element that is still
\* observed.
C4_AnimatedIsRetired == \A el \in triggered : el \notin observed

\* C5: the transition delay a list item got when it triggered is 0.2 * i
\* seconds for the sibling index i it had then, whichever items triggered
\* before it.
C5_DelayIsIndexTimes02 ==
    \A el \in Elems :
        trigIndex[el] # -1 => transitionDelay[el] = SecondsTimes02(trigIndex[el])

\* C5 witness: the item at sibling index 1 has triggered and carries 0.2s
\* while the list item before it has not been animated.
C5_Witness ==
    \E el \in Elems, first \in Elems :
        /\ Len(children) >= 2 /\ children[1] = first /\ children[2] = el
        /\ IsListItem(el) /\ IsListItem(first)
        /\ trigIndex[el] = 1 /\ transitionDelay[el] = "0.2s"
        /\ "animate" \notin classList[first]

\* C6: a callback step that writes an element's transition delay writes the
\* delay of the position the element has among its parent's children in the
\* state the callback runs in, not of the position it was registered at.
C6_DelayFromOrderAtTrigger ==
    [][\A el \in Elems :
          (ready /\ transitionDelay'[el] # transitionDelay[el]) =>
             /\ el \in Range(children)
             /\ transitionDelay'[el] = SecondsTimes02(siblingIndex(children, el))]_vars

\* C6 witness: a list item was registered at one position, its siblings were
\* edited, and it triggered at another position whose delay it carries.
C6_Witness ==
    \E el \in Elems :
        /\ IsListItem(el)
        /\ regIndex[el] = 0 /\ trigIndex[el] = 1
        /\ transitionDelay[el] = "0.2s"

\* C7: a list item never carries the observer's 'animate' class while its
\* stagger delay has not been assigned.
C7_DelayAssignedWhenAnimated ==
    \A el \in triggered : IsListItem(el) => trigIndex[el] # -1

C9_LoaderFadesThenHides ==
    /\ [](loaderDisplay = "none" => loaderOpacity = "0")
    /\ [][(~bodyLoaded /\ bodyLoaded' /\ loaderPresent) =>
             (loaderOpacity' = "0" /\ loaderDisplay' = loaderDisplay)]_vars
    /\ [][loaderDisplay' # loaderDisplay => (loaderTimer /\ ~loaderTimer')]_vars
    /\ ((bodyLoaded /\ loaderPresent) ~> loaderDisplay = "none")

\* C9 witness: load has run with a loader; the loader is faded and its
\* display is still untouched while the timer is pending.
C9_Witness ==
    /\ loaderPresent /\ bodyLoaded
    /\ loaderOpacity = "0" /\ loaderDisplay = "" /\ loaderTimer

\* C10: after a pointer-enter followed by a pointer-leave a service block's
\* inline transform and box-shadow are exactly what they were before the
\* pointer-enter.
C10_HoverCycleRestores ==
    \A el \in Elems :
        hoverPhase[el] = "left" => <<transform[el], boxShadow[el]>> = restBefore[el]

\* C10 amended: after a pointer-enter followed by a pointer-leave the inline
\* transform is 'translateY(0)' and the box-shadow 'none', whatever they were
\* before the pointer-enter; a block whose values were unset is not restored.
C10_HoverCycleSettles ==
    \A el \in Elems :
        hoverPhase[el] = "left" =>
           /\ transform[el] = "translateY(0)"
           /\ boxShadow[el] = "none"
           /\ restBefore[el] = <<"", "">> => <<transform[el], boxShadow[el]>> # restBefore[el]

\* C10 witness: a block without inline styles has completed its first cycle
\* and now carries the literal resting values.
C10_Witness ==
    \E el \in Elems :
        /\ hoverPhase[el] = "left"
        /\ restBefore[el] = <<"", "">>
        /\ transform[el] = "translateY(0)" /\ boxShadow[el] = "none"

\* C11: page-ready sets the single-shot timer for every hero block on the
\* page and registers none with the observer; a hero block is not animated
\* while its timer is pending, the timer's firing animates it, and a pending
\* timer does fire, whatever notifications arrive; on a page without a hero
\* block no timer is set and page-ready leaves every class list alone.
C11_EveryHeroAnimatedByTimer ==
    /\ [][(~ready /\ ready') =>
             /\ classList' = classList
             /\ \A h \in Range(children) :
                   "hero-content" \in classList[h] => heroTimer' = h
             /\ (\A h \in Range(children) : "hero-content" \notin classList[h])
                    => heroTimer' = Null]_vars
    /\ [](\A h \in Elems : "hero-content" \in classList[h] => h \notin observed)
    /\ [](heroTimer # Null => "animate" \notin classList[heroTimer])
    /\ [][(heroTimer # Null /\ heroTimer' = Null) =>
             "animate" \in classList'[heroTimer]]_vars
    /\ \A h \in Elems : (heroTimer = h) ~> ("animate" \in classList[h])

\* C11 amended: page-ready sets the single-shot timer for the first hero
\* block of the page in document order, and for no other; no hero block is
\* registered with the observer; the timer, once set, is only ever cleared by
\* its firing, which animates its hero block, not animated before, and
\* nothing else animates a hero block; a pending timer does fire, whatever
\* notifications arrive; on a page without a hero
\* block no timer is set, none is set later, and page-ready leaves every
\* class list and every inline style alone but for the delays and
\* registrations of the other roles.
C11_HeroAnimatedByTimer ==
    /\ [][(~ready /\ ready') =>
             LET heroes == {i \in 1..Len(children) :
                              "hero-content" \in classList[children[i]]}
             IN /\ classList' = classList
                /\ transform' = transform /\ boxShadow' = boxShadow
                /\ loadVars' = loadVars
                /\ \A el \in Elems :
                      "service-block" \notin classList[el] =>
                          transitionDelay'[el] = transitionDelay[el]
                /\ heroes = {} => heroTimer' = Null
                /\ heroes # {} =>
                      heroTimer' = children[CHOOSE i \in heroes :
                                              \A j \in heroes : i <= j]]_vars
    /\ [][ready => (heroTimer' = heroTimer \/ heroTimer' = Null)]_vars
    /\ [](\A h \in Elems : "hero-content" \in classList[h] => h \notin observed)
    /\ [](heroTimer # Null => "animate" \notin classList[heroTimer])
    /\ [][\A h \in Elems :
             ("hero-content" \in classList[h] /\ "animate" \notin classList[h]
                /\ "animate" \in classList'[h]) =>
                 heroTimer = h /\ heroTimer' = Null]_vars
    /\ [][(heroTimer # Null /\ heroTimer' = Null) =>
             "animate" \in classList'[heroTimer]]_vars
    /\ \A h \in Elems : (heroTimer = h) ~> ("animate" \in classList[h])

\* C11 witness: on a page whose two elements are both hero blocks, both on
\* the page since before page-ready, the timer has fired: the first carries
\* 'animate', the second does not and has no timer.
C11_Witness ==
    /\ children = <<1, 2>>
    /\ \A h \in Range(children) : "hero-content" \in classList[h]
    /\ ready /\ heroTimer = Null
    /\ "animate" \in classList[1]
    /\ "animate" \notin classList[2]
    /\ observed = {} /\ triggered = {}

\* C12: every call of the throttled function cancels the pending timer and
\* starts a new one, so at most one timer is pending; func runs only when a
\* full wait has passed since the last call, once per burst, with the
\* arguments of the burst's last call; and after a burst it does run.
C12_TrailingEdge ==
    /\ [](Cardinality(timers) <= 1)
    /\ [][nextCall' # nextCall =>
             timers' = {[id |-> nextCall, left |-> WaitTicks, args |-> nextCall]}]_vars
    /\ [][funcRuns' # funcRuns =>
             /\ funcRuns' = funcRuns + 1
             /\ sinceCall = WaitTicks
             /\ callsSinceRun > 0
             /\ ranArgs' = nextCall - 1
             /\ timers' = {}]_vars
    /\ [](callsSinceRun = 0 <=> timers = {})
    /\ (callsSinceRun > 0) ~> (callsSinceRun = 0)

\* C12 witness: a burst of two calls less than wait apart was followed by one
\* run of func, with the arguments of the second call.
C12_Witness ==
    /\ funcRuns = 1 /\ ranArgs = 2 /\ nextCall = 3
    /\ timers = {} /\ callsSinceRun = 0

\* C13: every operation checks that its element exists before it mutates, so
\* no handler run ends in an uncaught error, and once an observer callback has
\* acted on a list item that has no parent element the page is as a silent
\* no-op leaves it: the item carries no delay written by the callback.
C13_AbsenceIsSilentNoOp ==
    /\ uncaught = {}
    /\ \A el \in triggered :
          (IsListItem(el) /\ trigIndex[el] = -1) => el \notin observed

\* C14: an entry with isIntersecting = false changes nothing in the callback,
\* and a target that a delivered batch reports only as not intersecting keeps
\* its class list, its transition delay and its membership of the observation
\* set, animated before or not.
C14_NotIntersectingUntouched ==
    /\ [](\A el \in Elems :
             forEachBody([target |-> el, isIntersecting |-> FALSE], CallbackState)
                 = CallbackState)
    /\ [][(ready' = ready /\ heroTimer' = heroTimer /\ children' = children) =>
             \A el \in reportedOut' :
                 /\ classList'[el] = classList[el]
                 /\ transitionDelay'[el] = transitionDelay[el]
                 /\ el \in observed /\ el \in observed']_vars

\* C14 witness: a batch reported an animated, still observed element as not
\* intersecting and another target as intersecting; the first kept its mark
\* and its registration while the second was animated and retired.
C14_Witness ==
    \E el \in reportedOut, other \in triggered :
        /\ "animate" \in classList[el]
        /\ el \in observed
        /\ other # el /\ other \notin observed

\* C15: the pointer, click, load and resize handlers (and their timers) never
\* change an element's 'animate' class, transition delay or registration with
\* the observer, and the observer callback never changes a transform, a box
\* shadow, the loader's opacity or the loader's display.
C15_NoSharedState ==
    /\ [][(MouseEnter \/ MouseLeave \/ AnchorClick \/ Load \/ LoaderTimerFires
             \/ Resize \/ ThrottleTimerFires) =>
             /\ \A el \in Elems :
                   ("animate" \in classList'[el]) = ("animate" \in classList[el])
             /\ transitionDelay' = transitionDelay
             /\ observed' = observed]_vars
    /\ [][(ready /\ (classList' # classList \/ transitionDelay' # transitionDelay
                       \/ observed' # observed)) =>
             /\ hoverVars' = hoverVars
             /\ loadVars' = loadVars
             /\ lastClick' = lastClick
             /\ throttleVars' = throttleVars]_vars
    /\ [][triggered' # triggered =>
             /\ transform' = transform
             /\ boxShadow' = boxShadow
             /\ loaderOpacity' = loaderOpacity
             /\ loaderDisplay' = loaderDisplay]_vars

\* C15 witness: every ancillary handler has run around the animation of a
\* service block: the block was hovered and left after the observer animated
\* it, a link was clicked, the loader is hidden and the resize function ran.
C15_Witness ==
    \E el \in triggered :
        /\ "service-block" \in classList[el]
        /\ "animate" \in classList[el]
        /\ transitionDelay[el] = "0s"
        /\ el \notin observed
        /\ hoverPhase[el] = "left"
        /\ transform[el] = "translateY(0)"
        /\ lastClick # NoClick
        /\ loaderDisplay = "none"
        /\ funcRuns > 0

\* the number of service blocks that precede an attached element in document
\* order
BlocksBefore(el) ==
    Cardinality({j \in 1..Len(children) :
                    /\ "service-block" \in classList[children[j]]
                    /\ \E i \in 1..Len(children) : children[i] = el /\ j < i})

\* C16: no element has a delay before page-ready; page-ready gives every
\* attached service block the delay 0.2 * k s, k its index among the page's
\* service blocks, and registers it, so that a registered service block
\* always has its delay; afterwards the delay of a service block that is not
\* a list item never changes, a visibility trigger included.
C16_BlockDelayAtRegistration ==
    /\ [](~ready => \A el \in Elems : transitionDelay[el] = "")
    /\ [][(~ready /\ ready') =>
             \A el \in Elems :
                 IF "service-block" \in classList[el] /\ el \in Range(children)
                 THEN /\ transitionDelay'[el] = SecondsTimes02(BlocksBefore(el))
                      /\ el \in observed'
                 ELSE transitionDelay'[el] = transitionDelay[el]]_vars
    /\ [](\A el \in observed :
             "service-block" \in classList[el] => transitionDelay[el] # "")
    /\ [][ready =>
             \A el \in Elems :
                 ("service-block" \in classList[el] /\ ~IsListItem(el)) =>
                     transitionDelay'[el] = transitionDelay[el]]_vars

\* C16 witness: the second service block of the page got the delay 0.2s at
\* page-ready; the block before it was then removed, so that it is now the
\* first child and the first service block; it was triggered after that and
\* still carries 0.2s.
C16_Witness ==
    \E el \in triggered :
        /\ "service-block" \in classList[el] /\ ~IsListItem(el)
        /\ regIndex[el] = 1
        /\ children = <<el>>
        /\ transitionDelay[el] = "0.2s"
        /\ "animate" \in classList[el]
        /\ el \notin observed
        /\ uncaught = {}
====
